---------------------------- MODULE Spec2Model ----------------------------
(***************************************************************************)
(* Verification model of dicom-labeler: the manifest merge protocol        *)
(* (extract_dicom_headers.py), the operator submission handler             *)
(* (label_server/app.py) and the concurrent label-apply engine             *)
(* (apply_labels.py).                                                      *)
(***************************************************************************)
EXTENDS Integers, Sequences, FiniteSets, TLC

VARIABLES
    \* ---- manifest store (series_info.tsv) and label config ----
    tsvExists,      \* whether series_info.tsv exists
    tsv,            \* its rows, in file order
    labelsCfg,      \* lines of labels_config.txt
    submitted,      \* history: key -> label last stored by an operator submission
    op,             \* history: the last operation performed
    fresh,          \* history: the scan result, while the last operation is a re-scan
    inflight,       \* process -> what it holds of the manifest between its read and its write
    \* ---- build_protocol_name applied to drawn inputs ----
    pin,            \* the arguments (orig, annot, dim, plane)
    pout,           \* the value returned for them, once built
    pstate,         \* "drawn" or "built"
    \* ---- the file tree and one apply_labels.py process ----
    tree,           \* path -> file (content and how much of it is written)
    dirs,           \* directories that exist under root
    tmpf,           \* task -> its mkstemp sibling file, or NoFile
    dry_run,        \* --dry-run
    threads,        \* --threads
    uid_map,        \* series UID -> (annotation, plane) loaded by main
    mainpc,         \* position of main()
    queue,          \* all_files in submission order
    task,           \* path -> state of its handle_file call
    counts,         \* the five outcome counters of main
    faults,         \* I/O failures injected so far
    run,            \* apply runs started so far
    tree0           \* history: the tree when the current run enumerated it

mvars == <<tsvExists, tsv, labelsCfg, submitted, op, fresh, inflight>>

pvars == <<pin, pout, pstate>>

avars == <<tree, dirs, tmpf, dry_run, threads, uid_map, mainpc, queue, task, counts,
           faults, run, tree0>>

vars == <<tsvExists, tsv, labelsCfg, submitted, op, fresh, inflight, pin, pout, pstate,
          tree, dirs, tmpf, dry_run, threads, uid_map, mainpc, queue, task, counts,
          faults, run, tree0>>

-----------------------------------------------------------------------------
(* Generic helpers *)

Range(s) == {s[i] : i \in DOMAIN s}

\* dict.get(key, default)
Get(d, k, default) == IF k \in DOMAIN d THEN d[k] ELSE default

\* sequences over S of length at most n without repeated KeyOf
RECURSIVE SeqsUpTo(_, _)
SeqsUpTo(S, n) ==
    IF n = 0 THEN {<<>>}
    ELSE LET shorter == SeqsUpTo(S, n - 1)
         IN  shorter \cup {Append(s, x) : s \in shorter, x \in S}

\* str.strip() over the blank character
RECURSIVE LStrip(_)
LStrip(s) == IF s # "" /\ SubSeq(s, 1, 1) = " " THEN LStrip(SubSeq(s, 2, Len(s))) ELSE s

RECURSIVE RStrip(_)
RStrip(s) ==
    IF s # "" /\ SubSeq(s, Len(s), Len(s)) = " " THEN RStrip(SubSeq(s, 1, Len(s) - 1)) ELSE s

Strip(s) == RStrip(LStrip(s))

\* s[:n] of Python for n >= 0
Slice(s, n) == SubSeq(s, 1, IF n < Len(s) THEN n ELSE Len(s))

Max(a, b) == IF a >= b THEN a ELSE b

LowerCase == "abcdefghijklmnopqrstuvwxyz"
UpperCase == "ABCDEFGHIJKLMNOPQRSTUVWXYZ"

UpChar(c) ==
    IF \E i \in 1..26 : SubSeq(LowerCase, i, i) = c
    THEN LET i == CHOOSE j \in 1..26 : SubSeq(LowerCase, j, j) = c
         IN  SubSeq(UpperCase, i, i)
    ELSE c

\* str.upper()
RECURSIVE Upper(_)
Upper(s) == IF s = "" THEN "" ELSE UpChar(SubSeq(s, 1, 1)) \o Upper(SubSeq(s, 2, Len(s)))

-----------------------------------------------------------------------------
(* Bounds and input alphabets of the manifest model *)

MaxScan == 2          \* series found by one scan

\* (Study Instance UID, Series Instance UID) pairs on disk: two series of one
\* study, and one series UID that occurs under a second study
Keys == {<<"ST1", "S1">>, <<"ST1", "S2">>, <<"ST2", "S1">>}
SeriesUIDs == {k[2] : k \in Keys}

\* what a scan can read from the exemplar slice of a series: the tag columns
\* (one stands for all of DICOM_FIELD_MAPPING), the example path and the plane
Exemplars ==
    {[meta |-> "m1", example |-> "a/1.dcm", plane |-> "axial"],
     [meta |-> "m2", example |-> "b/1.dcm", plane |-> ""]}

FormValues == {"", " T1", "DELETE"}

\* the info dict build_series_manifest stores per series: tag columns, Example
\* File and Plane Orientation; it has no Annotation entry. Series S1 of study
\* ST1 is read from either exemplar, so that a later scan can find it changed;
\* the other series are always read from the first
FreshRecords ==
    {r \in {[study |-> k[1], series |-> k[2], meta |-> e.meta, example |-> e.example,
             plane |-> e.plane] : k \in Keys, e \in Exemplars} :
        r.meta = "m1" \/ <<r.study, r.series>> = <<"ST1", "S1">>}

KeyOf(r) == <<r.study, r.series>>

DistinctKeys(s) == \A i, j \in DOMAIN s : KeyOf(s[i]) = KeyOf(s[j]) => i = j

\* results of build_series_manifest: an ordered dict keyed by (study, series)
FreshScans == {s \in SeqsUpTo(FreshRecords, MaxScan) : DistinctKeys(s)}

HasKey(s, k) == \E i \in DOMAIN s : KeyOf(s[i]) = k

IndexOf(s, k) == CHOOSE i \in DOMAIN s : KeyOf(s[i]) = k

RowOf(s, k) == s[IndexOf(s, k)]

-----------------------------------------------------------------------------
(* extract_dicom_headers.py: merge_existing, write_manifest, main *)

\* a merge that takes the Annotation from the scanned record
MergeRowDroppingLabel(merged, row) ==
    LET key  == KeyOf(row)
        base == IF HasKey(merged, key) THEN merged
                ELSE Append(merged, [study |-> row.study, series |-> row.series,
                                     meta |-> Get(row, "meta", "")])
        i    == IndexOf(base, key)
        cur  == base[i]
        upd  == [f \in DOMAIN cur \cup {"example", "plane", "annot"} |->
                    CASE f = "example" -> Get(row, "example", Get(cur, "example", ""))
                      [] f = "plane"   -> Get(row, "plane", Get(cur, "plane", ""))
                      [] f = "annot"   -> Get(cur, "annot", "")
                      [] OTHER         -> cur[f]]
    IN  [base EXCEPT ![i] = upd]

\* a merge that skips the old rows whose series the scan did not find
MergeRowForgettingUnscanned(merged, row) ==
    LET key  == KeyOf(row)
        i    == IndexOf(merged, key)
        cur  == merged[i]
        upd  == [f \in DOMAIN cur \cup {"example", "plane", "annot"} |->
                    CASE f = "example" -> Get(row, "example", Get(cur, "example", ""))
                      [] f = "plane"   -> Get(row, "plane", Get(cur, "plane", ""))
                      [] f = "annot"   -> Get(row, "annot", "")
                      [] OTHER         -> cur[f]]
    IN  IF HasKey(merged, key) THEN [merged EXCEPT ![i] = upd] ELSE merged

\* a merge that identifies a series by its Series Instance UID alone
MergeRowBySeries(merged, row) ==
    LET known == \E j \in DOMAIN merged : merged[j].series = row.series
        base  == IF known THEN merged
                 ELSE Append(merged, [study |-> row.study, series |-> row.series,
                                      meta |-> Get(row, "meta", "")])
        i     == CHOOSE j \in DOMAIN base : base[j].series = row.series
        cur   == base[i]
        upd   == [f \in DOMAIN cur \cup {"example", "plane", "annot"} |->
                    CASE f = "example" -> Get(row, "example", Get(cur, "example", ""))
                      [] f = "plane"   -> Get(row, "plane", Get(cur, "plane", ""))
                      [] f = "annot"   -> Get(row, "annot", "")
                      [] OTHER         -> cur[f]]
    IN  [base EXCEPT ![i] = upd]

\* one iteration of the loop over the old rows
MergeRow(merged, row) ==
    LET key  == KeyOf(row)
        base == IF HasKey(merged, key) THEN merged
                ELSE Append(merged, [study |-> row.study, series |-> row.series,
                                     meta |-> Get(row, "meta", "")])
        i    == IndexOf(base, key)
        cur  == base[i]
        upd  == [f \in DOMAIN cur \cup {"example", "plane", "annot"} |->
                    CASE f = "example" -> Get(row, "example", Get(cur, "example", ""))
                      [] f = "plane"   -> Get(row, "plane", Get(cur, "plane", ""))
                      [] f = "annot"   -> Get(row, "annot", "")
                      [] OTHER         -> cur[f]]
    IN  [base EXCEPT ![i] = upd]

RECURSIVE MergeRows(_, _)
MergeRows(merged, rows) ==
    IF rows = <<>> THEN merged ELSE MergeRows(MergeRow(merged, Head(rows)), Tail(rows))

\* a merge that appends the old rows to the scanned records
merge_existing_appending(exists, rows, scan) == IF ~exists THEN scan ELSE scan \o rows

merge_existing(exists, rows, scan) == IF ~exists THEN scan ELSE MergeRows(scan, rows)

\* a writer that fills a missing Annotation with a placeholder
ManifestRowWithPlaceholder(info) ==
    [study   |-> Get(info, "study", ""),
     series  |-> Get(info, "series", ""),
     meta    |-> Get(info, "meta", ""),
     example |-> Get(info, "example", ""),
     plane   |-> Get(info, "plane", ""),
     annot   |-> Get(info, "annot", "UNKNOWN")]

\* the row write_manifest emits for one info dict
ManifestRow(info) ==
    [study   |-> Get(info, "study", ""),
     series  |-> Get(info, "series", ""),
     meta    |-> Get(info, "meta", ""),
     example |-> Get(info, "example", ""),
     plane   |-> Get(info, "plane", ""),
     annot   |-> Get(info, "annot", "")]

write_manifest(data) == [i \in DOMAIN data |-> ManifestRow(data[i])]

\* main(): build_series_manifest, merge_existing, write_manifest
Rescan(scan) ==
    /\ tsv' = write_manifest(merge_existing(tsvExists, tsv, scan))
    /\ tsvExists' = TRUE
    /\ fresh' = scan
    /\ op' = "rescan"
    /\ UNCHANGED <<labelsCfg, submitted, inflight>>
    /\ UNCHANGED <<pvars, avars>>

-----------------------------------------------------------------------------
(* label_server/app.py: load_manifest, save_manifest, append_label, save_page *)

load_manifest == IF tsvExists THEN tsv ELSE <<>>

\* load_labels: duplicates stripped, order preserved; append_label adds a new
\* non-blank label at the end
append_label(cfg, new_label) ==
    LET l == Strip(new_label)
    IN  IF l = "" \/ l \in Range(cfg) THEN cfg ELSE Append(cfg, l)

\* a test that counts every row with a submitted value as changed
RowChangesOnAnyValue(row, annotations) ==
    /\ row.series \in DOMAIN annotations
    /\ annotations[row.series] # ""

RowChanges(row, annotations) ==
    /\ row.series \in DOMAIN annotations
    /\ annotations[row.series] # ""
    /\ row.annot # annotations[row.series]

\* an update in which an empty submitted value clears the label
UpdatedRowClearing(row, annotations) ==
    IF row.series \in DOMAIN annotations
    THEN [row EXCEPT !.annot = annotations[row.series]] ELSE row

UpdatedRow(row, annotations) ==
    IF RowChanges(row, annotations)
    THEN [row EXCEPT !.annot = annotations[row.series]] ELSE row

RECURSIVE AppendLabels(_, _, _)
AppendLabels(cfg, rows, annotations) ==
    IF rows = <<>> THEN cfg
    ELSE AppendLabels(
            IF RowChanges(Head(rows), annotations)
            THEN append_label(cfg, annotations[Head(rows).series]) ELSE cfg,
            Tail(rows), annotations)

\* POST /save_page/<n> with form fields label_<series uid> = value
save_page(form) ==
    LET annotations == [u \in DOMAIN form |-> Strip(form[u])]
        manifest    == load_manifest
        updated     == [i \in DOMAIN manifest |-> UpdatedRow(manifest[i], annotations)]
        changed     == Cardinality({i \in DOMAIN manifest : RowChanges(manifest[i], annotations)})
    IN  /\ op' = "save"
        /\ IF DOMAIN form = {} \/ changed = 0
           THEN UNCHANGED <<tsv, tsvExists, labelsCfg, submitted>>
           ELSE /\ tsv' = updated                \* save_manifest: rows is non-empty here
                /\ tsvExists' = TRUE
                /\ labelsCfg' = AppendLabels(labelsCfg, manifest, annotations)
                /\ submitted' = [k \in Keys |->
                       IF \E i \in DOMAIN manifest :
                              KeyOf(manifest[i]) = k /\ RowChanges(manifest[i], annotations)
                       THEN annotations[k[2]] ELSE submitted[k]]
        /\ fresh' = <<>>
        /\ UNCHANGED <<inflight, pvars, avars>>

Forms == UNION {[U -> FormValues] : U \in SUBSET SeriesUIDs}

-----------------------------------------------------------------------------
(* Overlapping work on series_info.tsv: save_page requests served by the
   threads of the Flask server and one run of extract_dicom_headers.py, each
   a read of the whole file followed later by a write of the whole file *)

MaxRequests == 2     \* save_page requests that may overlap

Scanner  == 0
Requests == 1..MaxRequests
Procs    == {Scanner} \cup Requests

\* the forms of the overlapping requests and the scans of the overlapping run
RaceForms ==
    {form \in Forms :
        \/ \A u \in DOMAIN form : form[u] = " T1"
        \/ form = [u \in {"S1", "S2"} |-> IF u = "S1" THEN "DELETE" ELSE ""]}
RaceScans == {s \in FreshScans : Len(s) <= 1}

IdleProc == [pc |-> "idle", input |-> <<>>, exists |-> FALSE, rows |-> <<>>]

NoRequests == [p \in Procs |-> IdleProc]

\* save_page lines 174-186: collect the form, return when it is empty, else
\* load the manifest
BeginSave(c, form) ==
    /\ inflight[c].pc = "idle"
    /\ inflight' = [inflight EXCEPT ![c] =
           IF DOMAIN form = {}
           THEN [IdleProc EXCEPT !.pc = "done"]
           ELSE [pc |-> "loaded", input |-> form, exists |-> tsvExists,
                 rows |-> load_manifest]]
    /\ UNCHANGED <<tsvExists, tsv, labelsCfg, submitted, op, fresh>>
    /\ UNCHANGED <<pvars, avars>>

\* save_page lines 187-201: update the loaded rows, append new labels, and
\* save_manifest when a row changed
EndSave(c) ==
    LET form        == inflight[c].input
        annotations == [u \in DOMAIN form |-> Strip(form[u])]
        manifest    == inflight[c].rows
        updated     == [i \in DOMAIN manifest |-> UpdatedRow(manifest[i], annotations)]
        changed     == Cardinality({i \in DOMAIN manifest : RowChanges(manifest[i], annotations)})
    IN  /\ inflight[c].pc = "loaded"
        /\ inflight' = [inflight EXCEPT ![c].pc = "done"]
        /\ op' = "save"
        /\ IF changed = 0
           THEN UNCHANGED <<tsv, tsvExists, labelsCfg, submitted>>
           ELSE /\ tsv' = updated
                /\ tsvExists' = TRUE
                /\ labelsCfg' = AppendLabels(labelsCfg, manifest, annotations)
                /\ submitted' = [k \in Keys |->
                       IF \E i \in DOMAIN manifest :
                              KeyOf(manifest[i]) = k /\ RowChanges(manifest[i], annotations)
                       THEN annotations[k[2]] ELSE submitted[k]]
        /\ fresh' = <<>>
        /\ UNCHANGED <<pvars, avars>>

\* main() of the extract script up to merge_existing: the scan is built and
\* the old manifest is read
BeginScan(scan) ==
    /\ inflight[Scanner].pc = "idle"
    /\ inflight' = [inflight EXCEPT ![Scanner] =
           [pc |-> "merged", input |-> scan, exists |-> tsvExists, rows |-> tsv]]
    /\ UNCHANGED <<tsvExists, tsv, labelsCfg, submitted, op, fresh>>
    /\ UNCHANGED <<pvars, avars>>

\* main(): write_manifest of what merge_existing returned
EndScan ==
    LET s == inflight[Scanner]
    IN  /\ s.pc = "merged"
        /\ tsv' = write_manifest(merge_existing(s.exists, s.rows, s.input))
        /\ tsvExists' = TRUE
        /\ fresh' = s.input
        /\ op' = "rescan"
        /\ inflight' = [inflight EXCEPT ![Scanner].pc = "done"]
        /\ UNCHANGED <<labelsCfg, submitted>>
        /\ UNCHANGED <<pvars, avars>>

-----------------------------------------------------------------------------
(* apply_labels.py: constants and pure helpers *)

PROTO_MAX_LEN == 64

None == "<None>"

\* a header value as pydicom hands it over: absent (None), empty, text that is
\* no number, or a number (in tenths, so that 1.5 is 15)
Absent    == [kind |-> "none", val |-> 0]
EmptyVal  == [kind |-> "empty", val |-> 0]
TextVal   == [kind |-> "text", val |-> 0]
Num(t)    == [kind |-> "num", val |-> t]

\* int(v) and float(v) succeed on numbers only; elsewhere Python raises
IsNumber(v) == v.kind = "num"
ToInt(v)    == v.val \div 10
to_float(v) == v.val

\* a variant that tests thickness and spacing before the temporal positions
classify_acq_dim_thickness_first(ds) ==
    LET ntp == ds.ntp
        st  == ds.st
        sb  == ds.sb
        ntpSkipped == ntp.kind \in {"none", "empty"} \/ (IsNumber(ntp) /\ ntp.val = 0)
    IN  IF \/ (IsNumber(st) /\ to_float(st) < 20)
           \/ (IsNumber(sb) /\ to_float(sb) < 20)
        THEN "3D"
        ELSE IF ~ntpSkipped /\ IsNumber(ntp) /\ ToInt(ntp) > 1 THEN "4D" ELSE "2D"

classify_acq_dim(ds) ==
    LET ntp == ds.ntp
        st  == ds.st
        sb  == ds.sb
        \* ntp in (None, "", 0, "0")
        ntpSkipped == ntp.kind \in {"none", "empty"} \/ (IsNumber(ntp) /\ ntp.val = 0)
    IN  IF ~ntpSkipped /\ IsNumber(ntp) /\ ToInt(ntp) > 1
        THEN "4D"
        ELSE IF \/ (IsNumber(st) /\ to_float(st) < 20)
                \/ (IsNumber(sb) /\ to_float(sb) < 20)
             THEN "3D" ELSE "2D"

ProtoPrefix(annot, dim, plane) ==
    "seq_" \o annot \o "_acq_" \o dim \o "_plane_" \o plane \o "___"

\* a variant that reserves one character too few for the original value
build_protocol_name_off_by_one(orig, annot, dim, plane) ==
    LET prefix       == ProtoPrefix(annot, dim, plane)
        max_orig_len == PROTO_MAX_LEN - Len(prefix) + 1
    IN  prefix \o Slice(orig, Max(max_orig_len, 0))

build_protocol_name(orig, annot, dim, plane) ==
    LET prefix       == ProtoPrefix(annot, dim, plane)
        max_orig_len == PROTO_MAX_LEN - Len(prefix)
    IN  prefix \o Slice(orig, Max(max_orig_len, 0))

-----------------------------------------------------------------------------
(* The file tree *)

\* a path under root is <<number of leading WAITING_DELETION components,
\* directory, file name>>; a directory is <<components, directory>>, with ""
\* for the WAITING_DELETION directory itself (and <<0, "">> for root)
Parent(p) == <<p[1], p[2]>>

\* a destination that mirrors the path below WAITING_DELETION once
QuarantinePathOnce(p) == <<1, p[2], p[3]>>

\* trash_root / rel, with rel the path relative to root
QuarantinePath(p) == <<p[1] + 1, p[2], p[3]>>

\* mkdir(parents=True, exist_ok=True) of directory d
WithParents(d) == {<<i, "">> : i \in 0..d[1]} \cup {d}

DirsOf(tr) == UNION {WithParents(Parent(p)) : p \in DOMAIN tr}

NoFile == [written |-> "none"]

\* a completely written slice file holding dataset ds
FullFile(ds) == [written |-> "full", data |-> ds]

\* a dataset; uid None when the file has no SeriesInstanceUID
Slice2D(uid, proto) ==
    [uid |-> uid, proto |-> proto, ntp |-> Absent, st |-> Num(50), sb |-> Absent]

\* a file pydicom cannot parse
Garbage == [written |-> "full", data |-> [uid |-> None, proto |-> "", ntp |-> Absent,
                                           st |-> Absent, sb |-> Absent, garbage |-> TRUE]]

Parsable(f) == f.written = "full" /\ "garbage" \notin DOMAIN f.data

Outcomes == {"edited", "moved", "skipped", "unchanged", "error"}

ZeroCounts == [k \in Outcomes |-> 0]

\* main(): the manifest rows loaded into uid_map; a later row of the same
\* series UID replaces an earlier one
RECURSIVE LoadUidMap(_, _)
LoadUidMap(rows, acc) ==
    IF rows = <<>> THEN acc
    ELSE LET r == Head(rows)
             entry == <<Strip(Get(r, "annot", "")), Strip(Get(r, "plane", ""))>>
         IN  LoadUidMap(Tail(rows),
                        [u \in DOMAIN acc \cup {r.series} |->
                            IF u = r.series THEN entry ELSE acc[u]])

EmptyMap == [u \in {} |-> <<"", "">>]

\* a comparison with the sentinel that is case-sensitive
IsDeleteCaseSensitive(annot) == annot = "DELETE"

\* line 117: (annot or "").upper() == "DELETE"
IsDelete(annot) == Upper(annot) = "DELETE"

\* a variant that handles a series missing from the manifest as an unlabelled one
DecideWithoutSkip(f, m, dry) ==
    IF ~Parsable(f) THEN [pc |-> "done", result |-> "error", new_proto |-> ""]
    ELSE LET new_proto == build_protocol_name(f.data.proto, "UNKNOWN",
                                              classify_acq_dim(f.data), "UNKNOWN")
         IN  IF dry
             THEN [pc |-> "done", result |-> "edited", new_proto |-> new_proto]
             ELSE [pc |-> "mkstemp", result |-> "", new_proto |-> new_proto]

\* a variant whose DELETE branch does not look at the dry-run flag
DecideMovingOnDryRun(f, m, dry) ==
    IF ~Parsable(f) THEN [pc |-> "done", result |-> "error", new_proto |-> ""]
    ELSE IF f.data.uid \notin DOMAIN m
    THEN [pc |-> "done", result |-> "skipped", new_proto |-> ""]
    ELSE LET annot == m[f.data.uid][1]
             plane == m[f.data.uid][2]
             new_proto == build_protocol_name(
                              f.data.proto,
                              IF annot = "" THEN "UNKNOWN" ELSE annot,
                              classify_acq_dim(f.data),
                              IF plane = "" THEN "UNKNOWN" ELSE plane)
         IN  IF IsDelete(annot)
             THEN [pc |-> "mkdir", result |-> "", new_proto |-> ""]
             ELSE IF new_proto = f.data.proto
             THEN [pc |-> "done", result |-> "unchanged", new_proto |-> new_proto]
             ELSE IF dry
             THEN [pc |-> "done", result |-> "edited", new_proto |-> new_proto]
             ELSE [pc |-> "mkstemp", result |-> "", new_proto |-> new_proto]

\* handle_file from dcmread to the first file-system change: what the call
\* a decision that skips the files of a series without label
DecideSkippingUnlabelled(f, m, dry) ==
    IF ~Parsable(f) THEN [pc |-> "done", result |-> "error", new_proto |-> ""]
    ELSE IF f.data.uid \notin DOMAIN m \/ m[f.data.uid][1] = ""
    THEN [pc |-> "done", result |-> "skipped", new_proto |-> ""]
    ELSE LET annot == m[f.data.uid][1]
             plane == m[f.data.uid][2]
             new_proto == build_protocol_name(
                              f.data.proto, annot, classify_acq_dim(f.data),
                              IF plane = "" THEN "UNKNOWN" ELSE plane)
         IN  IF IsDelete(annot)
             THEN IF dry THEN [pc |-> "done", result |-> "moved", new_proto |-> ""]
                  ELSE [pc |-> "mkdir", result |-> "", new_proto |-> ""]
             ELSE IF new_proto = f.data.proto
             THEN [pc |-> "done", result |-> "unchanged", new_proto |-> new_proto]
             ELSE IF dry
             THEN [pc |-> "done", result |-> "edited", new_proto |-> new_proto]
             ELSE [pc |-> "mkstemp", result |-> "", new_proto |-> new_proto]

\* returns at once, or the step it goes on with, for file f under map m
Decide(f, m, dry) ==
    IF ~Parsable(f) THEN [pc |-> "done", result |-> "error", new_proto |-> ""]
    ELSE IF f.data.uid \notin DOMAIN m
    THEN [pc |-> "done", result |-> "skipped", new_proto |-> ""]
    ELSE LET annot == m[f.data.uid][1]
             plane == m[f.data.uid][2]
             new_proto == build_protocol_name(
                              f.data.proto,
                              IF annot = "" THEN "UNKNOWN" ELSE annot,
                              classify_acq_dim(f.data),
                              IF plane = "" THEN "UNKNOWN" ELSE plane)
         IN  IF IsDelete(annot)
             THEN IF dry THEN [pc |-> "done", result |-> "moved", new_proto |-> ""]
                  ELSE [pc |-> "mkdir", result |-> "", new_proto |-> ""]
             ELSE IF new_proto = f.data.proto
             THEN [pc |-> "done", result |-> "unchanged", new_proto |-> new_proto]
             ELSE IF dry
             THEN [pc |-> "done", result |-> "edited", new_proto |-> new_proto]
             ELSE [pc |-> "mkstemp", result |-> "", new_proto |-> new_proto]

\* shutil.move(path, dest): dest is replaced when it exists
MoveFile(tr, src, dest) ==
    [q \in (DOMAIN tr \ {src}) \cup {dest} |-> IF q = dest THEN tr[src] ELSE tr[q]]

\* os.replace(tmp, path)
ReplaceFile(tr, path, f) ==
    [q \in DOMAIN tr \cup {path} |-> IF q = path THEN f ELSE tr[q]]

-----------------------------------------------------------------------------
(* apply_labels.py: handle_file, one action per file-system step *)

MaxFiles   == 3       \* files in the initial tree
MaxDepth   == 1       \* quarantine levels present in the initial tree
MaxThreads == 2       \* largest --threads
MaxRuns    == 2       \* apply runs in a row
MaxFaults  == 1       \* I/O failures injected

NewTask == [pc |-> "queued", ds |-> NoFile, new_proto |-> "", result |-> "",
            failedAt |-> ""]

Running(p) == task[p].pc \notin {"queued", "done", "counted"}

\* the pool hands the oldest queued call to a free worker
CanStart(p) ==
    /\ task[p].pc = "queued"
    /\ \A i, j \in DOMAIN queue : (queue[j] = p /\ i < j) => task[queue[i]].pc # "queued"
    /\ Cardinality({q \in DOMAIN task : Running(q)}) < Max(1, threads)

PoolAlive == mainpc \in {"running", "aborting"}

\* the call raises out of handle_file at step `at`
Raise(p, at) ==
    task' = [task EXCEPT ![p] = [@ EXCEPT !.pc = "done", !.result = "raise", !.failedAt = at]]

Inject == faults < MaxFaults /\ faults' = faults + 1

\* lines 105-142: dcmread and every return that touches no file
Read(p) ==
    /\ PoolAlive
    /\ CanStart(p)
    /\ \/ /\ Inject
          /\ task' = [task EXCEPT ![p] = [@ EXCEPT !.pc = "done", !.result = "error",
                                                   !.failedAt = "read"]]
       \/ /\ UNCHANGED faults
          /\ LET f == IF p \in DOMAIN tree THEN tree[p] ELSE NoFile
                 d == Decide(f, uid_map, dry_run)
             IN  task' = [task EXCEPT ![p] = [@ EXCEPT !.pc = d.pc, !.result = d.result,
                                                      !.new_proto = d.new_proto, !.ds = f]]
    /\ UNCHANGED <<tree, dirs, tmpf, dry_run, threads, uid_map, mainpc, queue, counts,
                   run, tree0>>
    /\ UNCHANGED <<mvars, pvars>>

\* line 123: dest.parent.mkdir(parents=True, exist_ok=True)
Mkdir(p) ==
    /\ task[p].pc = "mkdir"
    /\ \/ /\ Inject
          /\ Raise(p, "mkdir")
          /\ UNCHANGED dirs
       \/ /\ UNCHANGED faults
          /\ dirs' = dirs \cup WithParents(Parent(QuarantinePath(p)))
          /\ task' = [task EXCEPT ![p].pc = "move"]
    /\ UNCHANGED <<tree, tmpf, dry_run, threads, uid_map, mainpc, queue, counts, run, tree0>>
    /\ UNCHANGED <<mvars, pvars>>

\* line 124: shutil.move(str(path), dest)
Move(p) ==
    /\ task[p].pc = "move"
    /\ \/ /\ Inject
          /\ Raise(p, "move")
          /\ UNCHANGED tree
       \/ /\ UNCHANGED faults
          /\ IF p \in DOMAIN tree /\ Parent(QuarantinePath(p)) \in dirs
             THEN /\ tree' = MoveFile(tree, p, QuarantinePath(p))
                  /\ task' = [task EXCEPT ![p] = [@ EXCEPT !.pc = "done", !.result = "moved"]]
             ELSE /\ Raise(p, "move")
                  /\ UNCHANGED tree
    /\ UNCHANGED <<dirs, tmpf, dry_run, threads, uid_map, mainpc, queue, counts, run, tree0>>
    /\ UNCHANGED <<mvars, pvars>>

\* lines 144-148: set ds.ProtocolName, mkstemp in the file's directory, close
Mkstemp(p) ==
    /\ task[p].pc = "mkstemp"
    /\ \/ /\ Inject
          /\ Raise(p, "mkstemp")
          /\ UNCHANGED tmpf
       \/ /\ UNCHANGED faults
          /\ tmpf' = [tmpf EXCEPT ![p] = [written |-> "empty"]]
          /\ task' = [task EXCEPT ![p].pc = "save"]
    /\ UNCHANGED <<tree, dirs, dry_run, threads, uid_map, mainpc, queue, counts, run, tree0>>
    /\ UNCHANGED <<mvars, pvars>>

\* the dataset handle_file saves
Modified(p) == [task[p].ds.data EXCEPT !.proto = task[p].new_proto]

\* a save that writes the dataset over the original path
SaveInPlace(p) ==
    /\ task[p].pc = "save"
    /\ UNCHANGED faults
    /\ tree' = ReplaceFile(tree, p, [written |-> "partial", data |-> Modified(p)])
    /\ tmpf' = [tmpf EXCEPT ![p] = [written |-> "partial", data |-> Modified(p)]]
    /\ task' = [task EXCEPT ![p].pc = "saving"]
    /\ UNCHANGED <<dirs, dry_run, threads, uid_map, mainpc, queue, counts, run, tree0>>
    /\ UNCHANGED <<mvars, pvars>>

\* line 150: ds.save_as(tmp_name) starts writing the temp file
SaveBegin(p) ==
    /\ task[p].pc = "save"
    /\ \/ /\ Inject
          /\ task' = [task EXCEPT ![p] = [@ EXCEPT !.pc = "cleanup", !.failedAt = "save"]]
          /\ UNCHANGED tmpf
       \/ /\ UNCHANGED faults
          /\ tmpf' = [tmpf EXCEPT ![p] = [written |-> "partial", data |-> Modified(p)]]
          /\ task' = [task EXCEPT ![p].pc = "saving"]
    /\ UNCHANGED <<tree, dirs, dry_run, threads, uid_map, mainpc, queue, counts, run, tree0>>
    /\ UNCHANGED <<mvars, pvars>>

\* line 150: ds.save_as(tmp_name) writes the rest and closes the temp file
SaveEnd(p) ==
    /\ task[p].pc = "saving"
    /\ \/ /\ Inject
          /\ task' = [task EXCEPT ![p] = [@ EXCEPT !.pc = "cleanup", !.failedAt = "save"]]
          /\ UNCHANGED tmpf
       \/ /\ UNCHANGED faults
          /\ tmpf' = [tmpf EXCEPT ![p] = FullFile(Modified(p))]
          /\ task' = [task EXCEPT ![p].pc = "replace"]
    /\ UNCHANGED <<tree, dirs, dry_run, threads, uid_map, mainpc, queue, counts, run, tree0>>
    /\ UNCHANGED <<mvars, pvars>>

\* lines 151-158: os.replace(tmp_name, path); the finally clause finds no temp
\* file; return "edited"
Replace(p) ==
    /\ task[p].pc = "replace"
    /\ \/ /\ Inject
          /\ task' = [task EXCEPT ![p] = [@ EXCEPT !.pc = "cleanup", !.failedAt = "replace"]]
          /\ UNCHANGED <<tree, tmpf>>
       \/ /\ UNCHANGED faults
          /\ tree' = ReplaceFile(tree, p, tmpf[p])
          /\ tmpf' = [tmpf EXCEPT ![p] = NoFile]
          /\ task' = [task EXCEPT ![p] = [@ EXCEPT !.pc = "done", !.result = "edited"]]
    /\ UNCHANGED <<dirs, dry_run, threads, uid_map, mainpc, queue, counts, run, tree0>>
    /\ UNCHANGED <<mvars, pvars>>

\* a finally clause that leaves the temp file behind
CleanupKeepingTemp(p) ==
    /\ task[p].pc = "cleanup"
    /\ Raise(p, task[p].failedAt)
    /\ UNCHANGED <<tree, dirs, tmpf, dry_run, threads, uid_map, mainpc, queue, counts,
                   faults, run, tree0>>
    /\ UNCHANGED <<mvars, pvars>>

\* lines 152-154 after a failure: unlink the temp file if it exists, re-raise
Cleanup(p) ==
    /\ task[p].pc = "cleanup"
    /\ tmpf' = [tmpf EXCEPT ![p] = NoFile]
    /\ Raise(p, task[p].failedAt)
    /\ UNCHANGED <<tree, dirs, dry_run, threads, uid_map, mainpc, queue, counts, faults,
                   run, tree0>>
    /\ UNCHANGED <<mvars, pvars>>

-----------------------------------------------------------------------------
(* apply_labels.py: main *)

\* directory listing order of two paths: by quarantine level, directory, name
Before(p, q) ==
    \/ p[1] < q[1]
    \/ /\ p[1] = q[1]
       /\ \/ (p[2] = "a" /\ q[2] = "b")
          \/ (p[2] = q[2] /\ p[3] = "1.dcm" /\ q[3] = "2.dcm")

RECURSIVE Ascending(_)
Ascending(S) ==
    IF S = {} THEN <<>>
    ELSE LET first == CHOOSE x \in S : \A y \in S \ {x} : Before(x, y)
         IN  <<first>> \o Ascending(S \ {first})

Reverse(s) == [i \in DOMAIN s |-> s[Len(s) + 1 - i]]

\* root.rglob("*") lists the files in an order the file system chooses; the
\* model draws it from the ascending and the descending listing, which put
\* every two files in both relative orders
ListingOrders(S) == {Ascending(S), Reverse(Ascending(S))}

RunOver == mainpc \in {"idle", "summary", "crashed"}

\* lines 184-229: load the manifest, enumerate the files under root (rglob, in
\* the order the file system lists them), submit one handle_file call per file
StartRun(order) ==
    /\ RunOver
    /\ run < MaxRuns
    /\ tsvExists
    /\ order \in ListingOrders(DOMAIN tree)
    /\ uid_map' = LoadUidMap(tsv, EmptyMap)
    /\ queue' = order
    /\ task' = [p \in DOMAIN tree |-> NewTask]
    /\ tmpf' = [p \in DOMAIN tree |-> NoFile]
    /\ counts' = ZeroCounts
    /\ tree0' = tree
    /\ run' = run + 1
    /\ mainpc' = "running"
    /\ UNCHANGED <<tree, dirs, dry_run, threads, faults>>
    /\ UNCHANGED <<mvars, pvars>>

\* a counting loop that takes two finished calls at once and counts one
CollectLosingUpdates(p) ==
    /\ mainpc = "running"
    /\ task[p].pc = "done"
    /\ task[p].result # "raise"
    /\ counts' = [counts EXCEPT ![task[p].result] = @ + 1]
    /\ task' = [q \in DOMAIN task |->
                  IF task[q].pc = "done" /\ task[q].result # "raise"
                  THEN [task[q] EXCEPT !.pc = "counted"] ELSE task[q]]
    /\ UNCHANGED mainpc
    /\ UNCHANGED <<tree, dirs, tmpf, dry_run, threads, uid_map, queue, faults, run, tree0>>
    /\ UNCHANGED <<mvars, pvars>>

\* lines 230-231: as_completed yields a finished call; fut.result() returns its
\* outcome, or raises what the call raised, which leaves the loop
Collect(p) ==
    /\ mainpc = "running"
    /\ task[p].pc = "done"
    /\ IF task[p].result = "raise"
       THEN /\ mainpc' = "aborting"
            /\ UNCHANGED <<counts, task>>
       ELSE /\ counts' = [counts EXCEPT ![task[p].result] = @ + 1]
            /\ task' = [task EXCEPT ![p].pc = "counted"]
            /\ UNCHANGED mainpc
    /\ UNCHANGED <<tree, dirs, tmpf, dry_run, threads, uid_map, queue, faults, run, tree0>>
    /\ UNCHANGED <<mvars, pvars>>

\* lines 235-248: every call is counted; print the five counters
Summary ==
    /\ mainpc = "running"
    /\ \A p \in DOMAIN task : task[p].pc = "counted"
    /\ mainpc' = "summary"
    /\ UNCHANGED <<tree, dirs, tmpf, dry_run, threads, uid_map, queue, task, counts, faults,
                   run, tree0>>
    /\ UNCHANGED <<mvars, pvars>>

\* the with-block is left by the exception: the pool runs every submitted call
\* to its end (shutdown(wait=True)), then main dies with the traceback
Crash ==
    /\ mainpc = "aborting"
    /\ \A p \in DOMAIN task : task[p].pc \in {"done", "counted"}
    /\ mainpc' = "crashed"
    /\ UNCHANGED <<tree, dirs, tmpf, dry_run, threads, uid_map, queue, task, counts, faults,
                   run, tree0>>
    /\ UNCHANGED <<mvars, pvars>>

-----------------------------------------------------------------------------
(* build_protocol_name on drawn arguments *)

MaxOrigLen  == 66      \* longest original ProtocolName drawn
MaxLabelLen == 45      \* longest label drawn

OrigText  == "t1_mprage_sag_p2_iso_0.9mm_post_contrast_fat_sat_repeat_2_motion_corrected"
LabelText == "T1w_MPRAGE_post_gadolinium_fat_saturated_isotropic_reformat"

ProtoInputs ==
    [orig  : {Slice(OrigText, n) : n \in 0..MaxOrigLen},
     annot : {Slice(LabelText, n) : n \in 0..MaxLabelLen} \cup {"UNKNOWN"},
     dim   : {"2D", "3D", "4D"},
     plane : {"axial", "UNKNOWN"}]

BuildName ==
    /\ pstate = "drawn"
    /\ pout' = build_protocol_name(pin.orig, pin.annot, pin.dim, pin.plane)
    /\ pstate' = "built"
    /\ UNCHANGED <<pin, mvars, avars>>

-----------------------------------------------------------------------------
(* Initial states *)

NoFiles == [p \in {} |-> NoFile]

IdleMerge ==
    /\ tsvExists = FALSE
    /\ tsv = <<>>
    /\ labelsCfg = <<>>
    /\ submitted = [k \in Keys |-> ""]
    /\ op = "init"
    /\ fresh = <<>>
    /\ inflight = NoRequests

IdleProto ==
    /\ pin = [orig |-> "", annot |-> "", dim |-> "2D", plane |-> ""]
    /\ pout = ""
    /\ pstate = "idle"

IdleApply ==
    /\ tree = NoFiles
    /\ dirs = {<<0, "">>}
    /\ tmpf = NoFiles
    /\ dry_run = FALSE
    /\ threads = 1
    /\ uid_map = EmptyMap
    /\ mainpc = "idle"
    /\ queue = <<>>
    /\ task = NoFiles
    /\ counts = ZeroCounts
    /\ faults = 0
    /\ run = 0
    /\ tree0 = NoFiles

\* labels the operator stored for series S1: none, a plain one, the delete
\* sentinel in mixed case, and a long free text
LongLabel   == Slice(LabelText, 44)
ApplyLabels == {"", "T1", "Delete", LongLabel}

\* manifests the apply engine is started with: S1 with any of the labels, S2
\* labelled FLAIR with no plane recorded; series S9 is in no manifest
ApplyManifests ==
    {<<[study |-> "ST1", series |-> "S1", meta |-> "m1", example |-> "a/1.dcm",
        plane |-> "axial", annot |-> l],
       [study |-> "ST1", series |-> "S2", meta |-> "m1", example |-> "b/1.dcm",
        plane |-> "", annot |-> " FLAIR"]>> : l \in ApplyLabels}

\* the ProtocolName that repeated runs over an unlabelled axial 2D series
\* settle on: the prefix followed by as much of itself as fits
SettledName ==
    build_protocol_name(ProtoPrefix("UNKNOWN", "2D", "axial"), "UNKNOWN", "2D", "axial")

\* what b/1.dcm can be: a slice of S1 that earlier runs rewrote while S1 was
\* unlabelled, a slice of S2, of the unknown series S9, a slice without
\* SeriesInstanceUID, or a file that is no DICOM file
BKinds ==
    {FullFile(Slice2D("S1", SettledName)), FullFile(Slice2D("S2", "t2_flair")),
     FullFile(Slice2D("S9", "localizer")), FullFile(Slice2D(None, "")), Garbage}

TreePaths ==
    {<<0, "a", "1.dcm">>, <<0, "a", "2.dcm">>, <<0, "b", "1.dcm">>}
        \cup {<<w, "a", "1.dcm">> : w \in 1..MaxDepth}

\* what a file left in WAITING_DELETION by an earlier run can be: a slice of
\* S1, or a slice of a series the manifest no longer holds
QKinds ==
    {FullFile(Slice2D("S1", "old_t1")), FullFile(Slice2D("S9", "old_localizer"))}

\* trees the engine is started on: directory a holds slices of S1, b/1.dcm is
\* one of BKinds, and WAITING_DELETION may hold a/1.dcm from an earlier run
Trees ==
    {[p \in S |-> IF p[2] = "b" THEN b
                  ELSE IF p[1] > 0 THEN w
                  ELSE FullFile(Slice2D("S1", "t1_mprage"))] :
        S \in {T \in SUBSET TreePaths : Cardinality(T) \in 1..MaxFiles},
        b \in BKinds, w \in QKinds}

InitApply ==
    /\ tsvExists = TRUE
    /\ tsv \in ApplyManifests
    /\ labelsCfg = <<>>
    /\ submitted = [k \in Keys |-> ""]
    /\ op = "init"
    /\ fresh = <<>>
    /\ inflight = NoRequests
    /\ IdleProto
    /\ tree \in Trees
    /\ dirs = DirsOf(tree)
    /\ tmpf = NoFiles
    /\ dry_run \in BOOLEAN
    /\ threads \in 1..MaxThreads
    /\ uid_map = EmptyMap
    /\ mainpc = "idle"
    /\ queue = <<>>
    /\ task = NoFiles
    /\ counts = ZeroCounts
    /\ faults = 0
    /\ run = 0
    /\ tree0 = NoFiles

InitMerge ==
    /\ IdleMerge
    /\ IdleProto
    /\ IdleApply

NextMerge ==
    \/ \E scan \in FreshScans : Rescan(scan)
    \/ \E form \in Forms : save_page(form)

\* re-scans and operator submissions on one manifest file
SpecMerge == InitMerge /\ [][NextMerge]_vars

\* a manifest of two unlabelled series, as a first scan wrote it
InitRace ==
    /\ tsvExists = TRUE
    /\ tsv \in {write_manifest(s) :
                   s \in {t \in FreshScans : Len(t) = MaxScan /\ t[1].meta = "m1" /\ t[2].meta = "m2"}}
    /\ labelsCfg = <<>>
    /\ submitted = [k \in Keys |-> ""]
    /\ op = "init"
    /\ fresh = <<>>
    /\ inflight = NoRequests
    /\ IdleProto
    /\ IdleApply

NextRace ==
    \/ \E c \in Requests, form \in RaceForms : BeginSave(c, form)
    \/ \E c \in Requests : EndSave(c)
    \/ \E scan \in RaceScans : BeginScan(scan)
    \/ EndScan

\* overlapping submissions and one re-scan on one manifest file
SpecRace == InitRace /\ [][NextRace]_vars

NextApply ==
    \/ \E order \in ListingOrders(DOMAIN tree) : StartRun(order)
    \/ \E p \in DOMAIN task : Read(p)
    \/ \E p \in DOMAIN task : Mkdir(p)
    \/ \E p \in DOMAIN task : Move(p)
    \/ \E p \in DOMAIN task : Mkstemp(p)
    \/ \E p \in DOMAIN task : SaveBegin(p)
    \/ \E p \in DOMAIN task : SaveEnd(p)
    \/ \E p \in DOMAIN task : Replace(p)
    \/ \E p \in DOMAIN task : Cleanup(p)
    \/ \E p \in DOMAIN task : Collect(p)
    \/ Summary
    \/ Crash

\* the apply engine on a fixed manifest
Spec == InitApply /\ [][NextApply]_vars

-----------------------------------------------------------------------------
(* extract_dicom_headers.py: find_files, build_series_manifest over the tree *)

\* the path of a file as command-line text
RECURSIVE PathText(_)
PathText(p) ==
    IF p[1] = 0 THEN p[2] \o "/" \o p[3]
    ELSE "WAITING_DELETION/" \o PathText(<<p[1] - 1, p[2], p[3]>>)

\* find_files: os.walk(root) visits every directory under root, the quarantine
\* subtree included, in the order the file system lists the directories; the
\* files of one directory come sorted by name. The model draws the walk with
\* WAITING_DELETION visited last and the walk with it visited first.
WalkOrders(S) ==
    LET quarantined == {p \in S : p[1] > 0}
    IN  {Ascending(S), Ascending(quarantined) \o Ascending(S \ quarantined)}

\* extract_header on file f: empty study or series UID makes the scan skip the
\* file; the slices of the modelled trees all belong to study ST1, the column
\* Protocol Name stands for the tag columns, and no slice carries orientation
\* or position, so Plane Orientation stays empty
HasSeries(f) == Parsable(f) /\ f.data.uid # None

ScanRecord(p, f) ==
    [study |-> "ST1", series |-> f.data.uid, meta |-> f.data.proto,
     example |-> PathText(p), plane |-> ""]

\* build_series_manifest: one record per (study, series), from the first file
\* of the series in walk order
RECURSIVE build_series_manifest(_, _, _)
build_series_manifest(tr, walk, manifest) ==
    IF walk = <<>> THEN manifest
    ELSE LET p == Head(walk)
             f == tr[p]
         IN  build_series_manifest(tr, Tail(walk),
                 IF HasSeries(f) /\ ~HasKey(manifest, <<"ST1", f.data.uid>>)
                 THEN Append(manifest, ScanRecord(p, f)) ELSE manifest)

\* main() of extract_dicom_headers.py on the root the apply engine works on,
\* between apply runs
ScanRoot(walk) ==
    /\ RunOver
    /\ walk \in WalkOrders(DOMAIN tree)
    /\ Rescan(build_series_manifest(tree, walk, <<>>))

\* a root that no apply run has worked on yet: nothing in quarantine
InitScan ==
    /\ InitApply
    /\ \A p \in DOMAIN tree : p[1] = 0
    /\ threads = 1
    /\ ~dry_run

NextScan ==
    \/ NextApply
    \/ \E walk \in WalkOrders(DOMAIN tree) : ScanRoot(walk)

\* apply runs with one worker and re-scans of the same root
SpecScan == InitScan /\ [][NextScan]_vars

InitProto ==
    /\ IdleMerge
    /\ IdleApply
    /\ pin \in ProtoInputs
    /\ pout = ""
    /\ pstate = "drawn"

NextProto == BuildName

\* build_protocol_name as a function of its arguments
SpecProto == InitProto /\ [][NextProto]_vars

-----------------------------------------------------------------------------
(* The header classifiers on drawn header values *)

\* NumberOfTemporalPositions is an integer string: absent, empty, no number,
\* 0, 1, 2 or 4
TemporalValues == {Absent, EmptyVal, TextVal, Num(0), Num(10), Num(20), Num(40)}

\* SliceThickness and SpacingBetweenSlices: absent, empty, no number, 1.5,
\* 1.9, 2.0, 4.0 or 5.0
ThicknessValues == {Absent, EmptyVal, TextVal, Num(15), Num(19), Num(20), Num(40), Num(50)}

DimInputs ==
    {[fn |-> "dim", ntp |-> n, st |-> t, sb |-> s] :
        n \in TemporalValues, t \in ThicknessValues, s \in ThicknessValues}

ClassifyDim ==
    /\ pstate = "drawn"
    /\ pin.fn = "dim"
    /\ pout' = classify_acq_dim(pin)
    /\ pstate' = "built"
    /\ UNCHANGED <<pin, mvars, avars>>

-----------------------------------------------------------------------------
(* extract_dicom_headers.py: determine_plane *)

\* orientation components in tenths: 0, 0.7 and 1 with either sign; products
\* and the normal are then in hundredths
OriComponents == {-10, -7, 0, 7, 10}

OriInputs ==
    {[fn |-> "ori", ori |-> <<a, b, c, d, e, f>>] :
        a \in OriComponents, b \in OriComponents, c \in OriComponents,
        d \in OriComponents, e \in OriComponents, f \in OriComponents}

Abs(x) == IF x < 0 THEN -x ELSE x

\* np.cross(row, col)
Cross(row, col) ==
    <<row[2] * col[3] - row[3] * col[2],
      row[3] * col[1] - row[1] * col[3],
      row[1] * col[2] - row[2] * col[1]>>

\* np.argmax(v): the first index of the largest component
ArgMax(v) == CHOOSE i \in DOMAIN v :
                /\ \A j \in DOMAIN v : v[j] <= v[i]
                /\ \A j \in DOMAIN v : j < i => v[j] < v[i]

PlaneNames == <<"sagittal", "coronal", "axial">>

\* a variant that takes the largest component of the normal with its sign
determine_plane_signed(ori) ==
    IF Len(ori) # 6 THEN ""
    ELSE LET normal == Cross(SubSeq(ori, 1, 3), SubSeq(ori, 4, 6))
             idx    == ArgMax(normal)
             major  == Abs(normal[idx])
         IN  IF major < 80 THEN "oblique" ELSE PlaneNames[idx]

\* lines 78-87; 0.8 is 80 hundredths
determine_plane(ori) ==
    IF Len(ori) # 6 THEN ""
    ELSE LET normal == Cross(SubSeq(ori, 1, 3), SubSeq(ori, 4, 6))
             idx    == ArgMax([i \in 1..3 |-> Abs(normal[i])])
             major  == Abs(normal[idx])
         IN  IF major < 80 THEN "oblique" ELSE PlaneNames[idx]

DeterminePlane ==
    /\ pstate = "drawn"
    /\ pin.fn = "ori"
    /\ pout' = determine_plane(pin.ori)
    /\ pstate' = "built"
    /\ UNCHANGED <<pin, mvars, avars>>

-----------------------------------------------------------------------------
(* extract_dicom_headers.py: infer_plane_from_patient_orientation *)

\* direction codes as a header can hold them: none, the six letters, a letter
\* that is no direction, lower case, and two-letter codes
PoCodes == {"", "R", "L", "A", "P", "H", "F", "X", "r", "f", "LP", "FA"}

\* PatientOrientation values: two codes joined by a backslash, and values
\* with no code, one code and three codes
PoInputs ==
    {[fn |-> "po", po |-> l \o "\\" \o r] : l \in PoCodes, r \in PoCodes}
        \cup {[fn |-> "po", po |-> s] : s \in {"", "R", "R\\A\\F"}}

\* c in text, for a single character c
InText(c, text) == \E i \in 1..Len(text) : SubSeq(text, i, i) = c

\* s.split(sep) for a one-character separator
RECURSIVE Split(_, _)
Split(s, sep) ==
    IF ~InText(sep, s) THEN <<s>>
    ELSE LET i == CHOOSE j \in 1..Len(s) :
                      /\ SubSeq(s, j, j) = sep
                      /\ \A k \in 1..(j - 1) : SubSeq(s, k, k) # sep
         IN  <<SubSeq(s, 1, i - 1)>> \o Split(SubSeq(s, i + 1, Len(s)), sep)

\* lines 89-112
infer_plane_from_patient_orientation(po) ==
    IF po = "" THEN ""
    ELSE LET parts == Split(Upper(po), "\\")
         IN  IF Len(parts) # 2 THEN ""
             ELSE LET row_dir == SubSeq(parts[1], 1, IF Len(parts[1]) > 0 THEN 1 ELSE 0)
                      col_dir == SubSeq(parts[2], 1, IF Len(parts[2]) > 0 THEN 1 ELSE 0)
                  IN  IF row_dir = "" \/ col_dir = "" THEN ""
                      ELSE IF InText(row_dir, "RL") /\ InText(col_dir, "AP") THEN "axial"
                      ELSE IF InText(row_dir, "RL") /\ InText(col_dir, "HF") THEN "coronal"
                      ELSE IF InText(row_dir, "AP") /\ InText(col_dir, "HF") THEN "sagittal"
                      ELSE IF InText(row_dir, "AP") /\ InText(col_dir, "RL") THEN "axial"
                      ELSE IF InText(row_dir, "HF") /\ InText(col_dir, "RL") THEN "coronal"
                      ELSE IF InText(row_dir, "HF") /\ InText(col_dir, "AP") THEN "sagittal"
                      ELSE "oblique"

InferPlane ==
    /\ pstate = "drawn"
    /\ pin.fn = "po"
    /\ pout' = infer_plane_from_patient_orientation(pin.po)
    /\ pstate' = "built"
    /\ UNCHANGED <<pin, mvars, avars>>

-----------------------------------------------------------------------------
(* extract_dicom_headers.py: the plane of a series, extract_header lines
   156-164 and build_series_manifest lines 196-218 *)

MaxSlices == 3       \* files read of one series

\* ImageOrientationPatient of a slice as _orientation_from_ds returns it: <<>>
\* for None, else six components in tenths
AxialOri    == <<10, 0, 0, 0, 10, 0>>
ObliqueOri  == <<7, 7, 0, 0, 0, 10>>
SagittalOri == <<0, 10, 0, 0, 0, 10>>

\* PatientOrientation of a slice: absent, a list or tuple of codes, or a value
\* of another type, of which extract_header takes str(); the text of a
\* two-valued pydicom value holds no backslash
PoValues ==
    {[kind |-> "absent"],
     [kind |-> "list", codes |-> <<"L", "F">>],
     [kind |-> "other", text |-> "['L', 'F']"]}

\* ImagePositionPatient: <<>> when absent, else three coordinates
PosValues == {<<>>, <<0, 0, 0>>, <<0, 0, 10>>, <<6, 6, 0>>}

\* InstanceNumber, 0 when absent
InstValues == {0, 1, 2}

\* InstanceNumber of the files read after the exemplar
LaterInstValues == {0, 1}

\* the first file read of a series, and the files read after it
Exemplar ==
    [ori : {<<>>, AxialOri, ObliqueOri}, po : PoValues, pos : PosValues, inst : InstValues]
LaterSlices ==
    [ori : {<<>>, SagittalOri}, po : {[kind |-> "absent"]}, pos : PosValues,
     inst : LaterInstValues]

\* the series of up to n files read, the exemplar first
SeriesInputs(n) ==
    {[fn |-> "series", files |-> <<e>> \o rest] :
        e \in Exemplar, rest \in SeqsUpTo(LaterSlices, n - 1)}

\* lines 159-162: the string handed to infer_plane_from_patient_orientation
RECURSIVE Join(_, _)
Join(codes, sep) ==
    IF codes = <<>> THEN ""
    ELSE IF Len(codes) = 1 THEN codes[1]
    ELSE codes[1] \o sep \o Join(Tail(codes), sep)

PoString(v) ==
    CASE v.kind = "absent" -> ""
      [] v.kind = "list"   -> Join(v.codes, "\\")
      [] OTHER             -> v.text

\* lines 156-164: the plane extract_header stores for one file
HeaderPlane(f) ==
    LET plane == IF f.ori # <<>> THEN determine_plane(f.ori) ELSE ""
    IN  IF plane # "" THEN plane
        ELSE infer_plane_from_patient_orientation(PoString(f.po))

\* poss.sort(key=inst): a stable sort by instance number
RECURSIVE InsertByInst(_, _)
InsertByInst(x, sorted) ==
    IF sorted = <<>> THEN <<x>>
    ELSE IF x.inst < Head(sorted).inst THEN <<x>> \o sorted
    ELSE <<Head(sorted)>> \o InsertByInst(x, Tail(sorted))

RECURSIVE SortByInst(_)
SortByInst(poss) ==
    IF poss = <<>> THEN <<>>
    ELSE InsertByInst(poss[Len(poss)], SortByInst(SubSeq(poss, 1, Len(poss) - 1)))

\* lines 196-197: the samples of a series, in read order
RECURSIVE Samples(_)
Samples(files) ==
    IF files = <<>> THEN <<>>
    ELSE (IF Head(files).pos # <<>> THEN <<Head(files)>> ELSE <<>>) \o Samples(Tail(files))

\* lines 203-218: major = |delta[idx]| / norm(delta) < 0.8, compared in squares
DriftPlane(files) ==
    LET poss == SortByInst(Samples(files))
    IN  IF Len(poss) < 2 THEN ""
        ELSE LET delta == [i \in 1..3 |-> poss[2].pos[i] - poss[1].pos[i]]
                 norm2 == delta[1] * delta[1] + delta[2] * delta[2] + delta[3] * delta[3]
                 idx   == ArgMax([i \in 1..3 |-> Abs(delta[i])])
             IN  IF norm2 = 0 THEN ""
                 ELSE IF 100 * delta[idx] * delta[idx] < 64 * norm2 THEN "oblique"
                 ELSE PlaneNames[idx]

\* a variant that runs the positional drift whatever the header gave
SeriesPlaneDriftFirst(files) ==
    LET drift == DriftPlane(files)
    IN  IF drift # "" THEN drift ELSE HeaderPlane(files[1])

\* the plane build_series_manifest records for a series read as files
SeriesPlane(files) ==
    LET plane == HeaderPlane(files[1])
    IN  IF plane # "" THEN plane ELSE DriftPlane(files)

PlaneOfSeries ==
    /\ pstate = "drawn"
    /\ pin.fn = "series"
    /\ pout' = SeriesPlane(pin.files)
    /\ pstate' = "built"
    /\ UNCHANGED <<pin, mvars, avars>>

HeaderInputs == DimInputs \cup OriInputs \cup PoInputs

InitHeader ==
    /\ IdleMerge
    /\ IdleApply
    /\ pin \in HeaderInputs \cup SeriesInputs(MaxSlices)
    /\ pout = ""
    /\ pstate = "drawn"

NextHeader ==
    \/ ClassifyDim
    \/ DeterminePlane
    \/ InferPlane
    \/ PlaneOfSeries

\* classify_acq_dim, determine_plane and
\* infer_plane_from_patient_orientation as functions of their arguments
SpecHeader == InitHeader /\ [][NextHeader]_vars

-----------------------------------------------------------------------------
(* Claims about the manifest store *)

\* C1 (label stickiness): in every state reached by re-scans and operator
\* submissions, each series carries exactly the Annotation the operator last
\* stored for it: a re-scan neither erases nor changes a label, whether or not
\* the series is still found on disk; only save_page changes one.
C1_LabelStickiness ==
    \A k \in Keys :
        IF HasKey(load_manifest, k)
        THEN RowOf(tsv, k).annot = submitted[k]
        ELSE submitted[k] = ""

\* a re-scan that no longer finds a labelled series and finds other series
C1_Witness ==
    /\ op = "rescan"
    /\ \E k \in Keys :
         /\ submitted[k] = "DELETE"
         /\ ~HasKey(fresh, k)
         /\ HasKey(tsv, k) /\ RowOf(tsv, k).annot = "DELETE"
         /\ \E k2 \in Keys \ {k} : HasKey(fresh, k2) /\ RowOf(tsv, k2).annot = ""

\* C3 (merge of a series present in both): every re-scan step writes, for a
\* series found by the scan and present in the old manifest, the tag columns,
\* example path and plane of the fresh scan and the Annotation of the old row.
C3_MergeTakesFreshFields ==
    [][op' = "rescan" =>
        \A k \in Keys :
            (tsvExists /\ HasKey(tsv, k) /\ HasKey(fresh', k)) =>
                RowOf(tsv', k) =
                    [study   |-> k[1],
                     series  |-> k[2],
                     meta    |-> RowOf(fresh', k).meta,
                     example |-> RowOf(fresh', k).example,
                     plane   |-> RowOf(fresh', k).plane,
                     annot   |-> RowOf(tsv, k).annot]]_vars

-----------------------------------------------------------------------------
(* Claims about build_protocol_name *)

Min(a, b) == IF a <= b THEN a ELSE b

PinPrefix == ProtoPrefix(pin.annot, pin.dim, pin.plane)

\* C9 as stated (truncation law): whenever the prefix has at most 64
\* characters, the result is the whole prefix followed by exactly
\* 64 - len(prefix) characters of the original value.
C9_TruncationLaw ==
    (pstate = "built" /\ Len(PinPrefix) <= PROTO_MAX_LEN) =>
        /\ SubSeq(pout, 1, Len(PinPrefix)) = PinPrefix
        /\ Len(pout) - Len(PinPrefix) = PROTO_MAX_LEN - Len(PinPrefix)

\* C9 as amended: whenever the prefix has at most 64 characters, the result is
\* the whole prefix followed by the first min(len(orig), 64 - len(prefix))
\* characters of the original value, which is none when the prefix alone
\* reaches 64.
C9_TruncationLawAmended ==
    (pstate = "built" /\ Len(PinPrefix) <= PROTO_MAX_LEN) =>
        LET kept == Len(pout) - Len(PinPrefix)
        IN  /\ SubSeq(pout, 1, Len(PinPrefix)) = PinPrefix
            /\ kept = Min(Len(pin.orig), PROTO_MAX_LEN - Len(PinPrefix))
            /\ kept >= 0
            /\ SubSeq(pout, Len(PinPrefix) + 1, Len(pout)) = SubSeq(pin.orig, 1, kept)

\* the prefix alone reaches the ceiling and nothing of a non-empty original
\* value survives
C9_Witness ==
    /\ pstate = "built"
    /\ Len(PinPrefix) = PROTO_MAX_LEN
    /\ pin.orig # ""
    /\ pout = PinPrefix

-----------------------------------------------------------------------------
(* Claims about the apply engine *)

NoFaultInRun == \A p \in DOMAIN task : task[p].failedAt = ""

EditPcs == {"mkstemp", "save", "saving", "replace", "cleanup"}

\* the label the manifest holds for the series of file f is the delete sentinel
LabelledDelete(f) ==
    /\ Parsable(f)
    /\ \E i \in DOMAIN tsv :
         tsv[i].series = f.data.uid /\ Upper(Strip(tsv[i].annot)) = "DELETE"

\* C2 (apply idempotence): when a second apply run on the tree left by a
\* first non-dry run, with the same manifest, has completed, it has reported
\* no file as edited.
C2_ApplyIdempotent ==
    (run = 2 /\ mainpc = "summary" /\ ~dry_run /\ faults = 0) => counts["edited"] = 0

\* C4 (no per-file failure aborts the run): a handle_file call whose write or
\* quarantine move fails ends with one of the five outcomes (error), and
\* main neither leaves its counting loop nor dies before the summary.
C4_NoFailureAbortsRun ==
    /\ \A p \in DOMAIN task :
         task[p].pc \in {"done", "counted"} => task[p].result \in Outcomes
    /\ mainpc \notin {"aborting", "crashed"}

\* C5 (atomic header write): no file of the tree is ever partially written,
\* and every step of a call that edits a file leaves the original path with
\* its old content, except the single os.replace, which puts the completely
\* written new dataset there.
C5_AtomicHeaderWrite ==
    /\ [](\A q \in DOMAIN tree : tree[q].written = "full")
    /\ [][\A p \in DOMAIN task :
            (task[p].pc \in EditPcs /\ task'[p] # task[p]) =>
                /\ p \in DOMAIN tree'
                /\ \/ tree'[p] = tree[p]
                   \/ /\ task[p].pc = "replace"
                      /\ tree'[p] = FullFile([task[p].ds.data EXCEPT
                                                 !.proto = task[p].new_proto])]_vars

\* an edit has gone through: the path holds the complete new dataset
C5_Witness ==
    \E p \in DOMAIN task :
        /\ task[p].result = "edited"
        /\ ~dry_run
        /\ p \in DOMAIN tree
        /\ tree[p] = FullFile([task[p].ds.data EXCEPT !.proto = task[p].new_proto])
        /\ tree[p] # tree0[p]

\* C6 (staging failure leaves no trace): every step of an editing call other
\* than the successful os.replace leaves the tree as it is, and when the call
\* raises its temp file does not exist.
C6_StagingFailureLeavesNoTrace ==
    [][\A p \in DOMAIN task :
          (task[p].pc \in EditPcs /\ task'[p] # task[p] /\ task'[p].result # "edited") =>
              /\ tree' = tree
              /\ task'[p].pc = "done" => tmpf'[p] = NoFile]_vars

\* a call whose os.replace failed has raised: no temp file, original as read
C6_Witness ==
    \E p \in DOMAIN task :
        /\ task[p].pc = "done"
        /\ task[p].result = "raise"
        /\ task[p].failedAt = "replace"
        /\ tmpf[p] = NoFile
        /\ tree[p] = task[p].ds

\* handle_file run to its end on tree tr, without failure
HandleFileSeq(tr, p, m, dry) ==
    LET f == tr[p]
        d == Decide(f, m, dry)
    IN  CASE d.pc = "done"  -> [tree |-> tr, result |-> d.result]
          [] d.pc = "mkdir" -> [tree |-> MoveFile(tr, p, <<p[1] + 1, p[2], p[3]>>),
                                result |-> "moved"]
          [] OTHER          -> [tree |-> ReplaceFile(tr, p,
                                            FullFile([f.data EXCEPT !.proto = d.new_proto])),
                                result |-> "edited"]

\* the run with one worker: the calls one after the other in submission order
RECURSIVE SeqRun(_, _, _, _, _)
SeqRun(order, tr, cnt, m, dry) ==
    IF order = <<>> THEN [tree |-> tr, counts |-> cnt]
    ELSE LET r == HandleFileSeq(tr, Head(order), m, dry)
         IN  SeqRun(Tail(order), r.tree, [cnt EXCEPT ![r.result] = @ + 1], m, dry)

\* C7 (concurrency independence): a run that completes without I/O failure
\* ends with the counts and the tree of the one-worker run over the same
\* files, whatever the number of workers and their interleaving.
C7_ConcurrencyIndependence ==
    (mainpc = "summary" /\ NoFaultInRun) =>
        LET s == SeqRun(queue, tree0, ZeroCounts, uid_map, dry_run)
        IN  tree = s.tree /\ counts = s.counts

\* C8 (delete sentinel relocation): the move step of a file whose series is
\* labelled DELETE in any letter case puts the file, unchanged, at
\* WAITING_DELETION/<its path relative to root>, with that directory and its
\* parents existing, and leaves nothing at the original path; and a completed
\* non-dry run without I/O failure over a tree with nothing in quarantine has
\* moved every such file there and counts exactly these files as moved.
C8_DeleteRelocation ==
    /\ [][\A p \in DOMAIN task :
            (task[p].pc = "move" /\ task'[p].result = "moved") =>
                LET dest == <<p[1] + 1, p[2], p[3]>>
                IN  /\ LabelledDelete(tree[p])
                    /\ p \notin DOMAIN tree'
                    /\ dest \in DOMAIN tree' /\ tree'[dest] = tree[p]
                    /\ {<<i, "">> : i \in 0..(p[1] + 1)} \cup {<<p[1] + 1, p[2]>>} \subseteq dirs'
         ]_vars
    /\ []((/\ mainpc = "summary"
           /\ ~dry_run
           /\ NoFaultInRun
           /\ \A q \in DOMAIN tree0 : q[1] = 0) =>
            LET del == {q \in DOMAIN tree0 : LabelledDelete(tree0[q])}
            IN  /\ counts["moved"] = Cardinality(del)
                /\ \A q \in del :
                     /\ q \notin DOMAIN tree
                     /\ <<1, q[2], q[3]>> \in DOMAIN tree
                     /\ tree[<<1, q[2], q[3]>>] = tree0[q])

\* a DELETE series with 3 files: all 3 at the mirrored quarantine paths
C8_Witness ==
    /\ mainpc = "summary"
    /\ counts["moved"] = 3
    /\ DOMAIN tree = {<<1, "a", "1.dcm">>, <<1, "a", "2.dcm">>, <<1, "b", "1.dcm">>}
    /\ \A q \in DOMAIN tree0 : q[1] = 0 /\ tree[<<1, q[2], q[3]>>] = tree0[q]
    /\ {<<1, "">>, <<1, "a">>, <<1, "b">>} \subseteq dirs

\* C10 (length ceiling): every ProtocolName held by a slice file of the tree,
\* written by the engine or original, has at most 64 characters.
C10_LengthCeiling ==
    \A p \in DOMAIN tree : Len(tree[p].data.proto) <= PROTO_MAX_LEN

Returned(k) == {p \in DOMAIN task : task[p].pc \in {"done", "counted"} /\ task[p].result = k}

\* C11 (aggregate counts are exact): at every point of the counting loop each
\* counter equals the number of calls collected with that outcome, and when
\* the run has completed each counter equals the number of files whose call
\* returned that outcome and the five counters sum to the number of files
\* enumerated.
C11_CountsExact ==
    /\ mainpc \in {"running", "summary"} =>
          \A k \in Outcomes :
              counts[k] = Cardinality({p \in DOMAIN task :
                                          task[p].pc = "counted" /\ task[p].result = k})
    /\ mainpc = "summary" =>
          /\ \A k \in Outcomes : counts[k] = Cardinality(Returned(k))
          /\ counts["edited"] + counts["moved"] + counts["skipped"]
               + counts["unchanged"] + counts["error"] = Len(queue)

\* a completed two-worker run over three files with three different outcomes
C11_Witness ==
    /\ mainpc = "summary"
    /\ threads = 2
    /\ Len(queue) = 3
    /\ Cardinality({k \in Outcomes : counts[k] = 1}) = 3

\* C12 (skip and parse error leave the file alone): the call for a file that
\* cannot be parsed returns error, the call for a parsable file whose
\* SeriesInstanceUID is absent or no key of the manifest returns skipped, and
\* in both cases the call ends at once, changing no file, creating no
\* directory and no temp file.
C12_SkipAndErrorTouchNothing ==
    [][\A p \in DOMAIN task :
          (/\ task[p].pc = "queued"
           /\ p \in DOMAIN task' /\ task'[p].pc # "queued"
           /\ p \in DOMAIN tree) =>
              LET f       == tree[p]
                  unknown == Parsable(f) /\ f.data.uid \notin DOMAIN uid_map
              IN  /\ ~Parsable(f) => task'[p].result = "error"
                  /\ (unknown /\ faults' = faults) => task'[p].result = "skipped"
                  /\ (~Parsable(f) \/ unknown \/ task'[p].result \in {"error", "skipped"}) =>
                        /\ task'[p].pc = "done"
                        /\ task'[p].result \in {"error", "skipped"}
                        /\ tree' = tree /\ dirs' = dirs /\ tmpf' = tmpf]_vars

\* a real run has moved the slices of directory a to quarantine and skipped
\* b/1.dcm, which has no SeriesInstanceUID: the file is where and what it was,
\* without temp file and without quarantine directory for b
C12_Witness ==
    LET b == <<0, "b", "1.dcm">>
    IN  /\ mainpc = "summary" /\ ~dry_run
        /\ counts["moved"] = 2
        /\ b \in DOMAIN task /\ task[b].result = "skipped"
        /\ task[b].ds.data.uid = None
        /\ b \in DOMAIN tree /\ tree[b] = tree0[b]
        /\ tmpf[b] = NoFile
        /\ <<1, "a">> \in dirs /\ <<1, "b">> \notin dirs

NoTempFiles == \A p \in DOMAIN tmpf : tmpf[p] = NoFile

-----------------------------------------------------------------------------
(* Further claims about the manifest store *)

\* the scanned record r as a manifest row without label
Unlabelled(r) ==
    [study |-> r.study, series |-> r.series, meta |-> r.meta, example |-> r.example,
     plane |-> r.plane, annot |-> ""]

\* C14 (series only in the old manifest are retained): every re-scan step
\* writes, for a series of the old manifest that the scan did not find, a row
\* equal to the old row in tag columns, example path, plane and Annotation.
C14_OldOnlyRetained ==
    [][op' = "rescan" =>
        \A k \in Keys :
            (tsvExists /\ HasKey(tsv, k) /\ ~HasKey(fresh', k)) =>
                /\ HasKey(tsv', k)
                /\ Cardinality({i \in DOMAIN tsv' : KeyOf(tsv'[i]) = k}) = 1
                /\ RowOf(tsv', k) = RowOf(tsv, k)]_vars

\* a re-scan has found one series and kept the labelled row, with the tag
\* columns and example path of its own scan, of a series it did not find
C14_Witness ==
    /\ op = "rescan"
    /\ Len(fresh) = 1
    /\ \E k \in Keys :
         /\ ~HasKey(fresh, k)
         /\ HasKey(tsv, k)
         /\ RowOf(tsv, k).annot = "T1"
         /\ RowOf(tsv, k).meta = "m2" /\ RowOf(tsv, k).example = "b/1.dcm"
         /\ RowOf(fresh, KeyOf(fresh[1])).meta = "m1"

\* C15 (series only in the fresh scan are inserted as scanned): every re-scan
\* step writes, for a series the scan found and the old manifest did not
\* hold, the scanned record unchanged with an empty Annotation.
C15_FreshOnlyInserted ==
    [][op' = "rescan" =>
        \A k \in Keys :
            (HasKey(fresh', k) /\ ~(tsvExists /\ HasKey(tsv, k))) =>
                /\ HasKey(tsv', k)
                /\ Cardinality({i \in DOMAIN tsv' : KeyOf(tsv'[i]) = k}) = 1
                /\ RowOf(tsv', k) = Unlabelled(RowOf(fresh', k))]_vars

\* a re-scan has added a series, unlabelled, to a manifest that holds a
\* labelled row of the same series UID under another study
C15_Witness ==
    /\ op = "rescan"
    /\ HasKey(tsv, <<"ST1", "S1">>) /\ RowOf(tsv, <<"ST1", "S1">>).annot = "DELETE"
    /\ ~HasKey(fresh, <<"ST1", "S1">>)
    /\ HasKey(fresh, <<"ST2", "S1">>)
    /\ RowOf(tsv, <<"ST2", "S1">>) = Unlabelled(RowOf(fresh, <<"ST2", "S1">>))

\* the rows of manifest s with their Annotation blanked
ScannedPart(s) == {Unlabelled(s[i]) : i \in DOMAIN s}

\* C16 (merge idempotence): a re-scan whose scan holds exactly the series and
\* field values of the persisted manifest writes a manifest with the same
\* rows: same keys, same field values, same Annotations.
C16_MergeIdempotent ==
    [][(op' = "rescan" /\ tsvExists /\ ScannedPart(tsv) = ScannedPart(fresh')) =>
          /\ Range(tsv') = Range(tsv)
          /\ Len(tsv') = Len(tsv)]_vars

\* a manifest of two series, one labelled, that a re-scan with exactly its
\* content has written and the same re-scan writes again
C16_Witness ==
    /\ op = "rescan"
    /\ Len(tsv) = 2
    /\ ScannedPart(tsv) = ScannedPart(fresh)
    /\ \E i \in DOMAIN tsv : tsv[i].annot = "T1"
    /\ write_manifest(merge_existing(tsvExists, tsv, fresh)) = tsv

-----------------------------------------------------------------------------
(* Claims about the life cycle of a series *)

\* every file of series uid lies under WAITING_DELETION
AllQuarantined(uid) ==
    /\ \E q \in DOMAIN tree : HasSeries(tree[q]) /\ tree[q].data.uid = uid
    /\ \A q \in DOMAIN tree : (HasSeries(tree[q]) /\ tree[q].data.uid = uid) => q[1] > 0

\* C17 (quarantined series leave the scan): a scan that follows a completed
\* real apply run which moved every file of a DELETE-labelled series to
\* quarantine does not find that series.
C17_QuarantinedSeriesLeaveScan ==
    (/\ op = "rescan" /\ mainpc = "summary" /\ NoFaultInRun
     /\ \A q \in DOMAIN tree0 : q[1] = 0) =>
        \A uid \in DOMAIN uid_map :
            (IsDelete(uid_map[uid][1]) /\ counts["moved"] > 0 /\ AllQuarantined(uid)) =>
                \A i \in DOMAIN fresh : fresh[i].series # uid

-----------------------------------------------------------------------------
(* Claims about the header classifiers *)

\* the value is a number below 2.0
Below2(v) == v.kind = "num" /\ v.val < 20

\* C18 (acquisition-dimension rule with priority): classify_acq_dim returns
\* 4D exactly when NumberOfTemporalPositions is a number above 1, whatever
\* thickness and spacing are; otherwise 3D exactly when SliceThickness or
\* SpacingBetweenSlices is a number below 2.0; otherwise 2D; absent, empty and
\* non-numeric values satisfy no condition.
C18_DimensionRule ==
    (pstate = "built" /\ pin.fn = "dim") =>
        LET temporal == pin.ntp.kind = "num" /\ pin.ntp.val > 10
            thin     == Below2(pin.st) \/ Below2(pin.sb)
        IN  /\ pout \in {"4D", "3D", "2D"}
            /\ pout = "4D" <=> temporal
            /\ pout = "3D" <=> (~temporal /\ thin)
            /\ pout = "2D" <=> (~temporal /\ ~thin)

\* 4 temporal positions with slice thickness 1.5 and no spacing give 4D
C18_Witness ==
    /\ pstate = "built" /\ pin.fn = "dim"
    /\ pin.ntp = Num(40) /\ pin.st = Num(15) /\ pin.sb = Absent
    /\ pout = "4D"

\* the orientation with row and column vectors exchanged
SwapRowCol(ori) == SubSeq(ori, 4, 6) \o SubSeq(ori, 1, 3)

\* C19 (plane from orientation vectors): determine_plane returns oblique
\* exactly when every component of the cross product of row and column
\* vector is below 0.8 in magnitude, and otherwise the plane of the first
\* largest-magnitude component (sagittal, coronal, axial); exchanging row and
\* column vector gives the same result; [1,0,0,0,1,0] gives axial and
\* [0.7,0.7,0,0,0,1] gives oblique.
C19_PlaneFromOrientation ==
    (pstate = "built" /\ pin.fn = "ori") =>
        LET n   == Cross(SubSeq(pin.ori, 1, 3), SubSeq(pin.ori, 4, 6))
            mag == [i \in 1..3 |-> Abs(n[i])]
        IN  /\ pout = "oblique" <=> \A i \in 1..3 : mag[i] < 80
            /\ pout # "oblique" =>
                  \E i \in 1..3 :
                      /\ pout = PlaneNames[i]
                      /\ \A j \in 1..3 : mag[j] <= mag[i]
                      /\ \A j \in 1..3 : j < i => mag[j] < mag[i]
            /\ determine_plane(SwapRowCol(pin.ori)) = pout
            /\ pin.ori = <<10, 0, 0, 0, 10, 0>> => pout = "axial"
            /\ pin.ori = <<7, 7, 0, 0, 0, 10>> => pout = "oblique"

\* row and column of the axial example exchanged: the normal points the other
\* way and the plane is still axial
C19_Witness ==
    /\ pstate = "built" /\ pin.fn = "ori"
    /\ pin.ori = <<0, 10, 0, 10, 0, 0>>
    /\ Cross(SubSeq(pin.ori, 1, 3), SubSeq(pin.ori, 4, 6)) = <<0, 0, -100>>
    /\ pout = "axial"

\* the axis family of a direction code, by its first letter in any case; "" for
\* a code that is missing or starts with no direction letter
Family(code) ==
    LET c == Upper(SubSeq(code, 1, IF Len(code) > 0 THEN 1 ELSE 0))
    IN  IF c = "" THEN ""
        ELSE IF InText(c, "RL") THEN "RL"
        ELSE IF InText(c, "AP") THEN "AP"
        ELSE IF InText(c, "HF") THEN "HF"
        ELSE ""

\* C20 (patient-orientation fallback): two direction codes are classified by
\* the set of their axis families, in either order ({RL, AP} axial, {RL, HF}
\* coronal, {AP, HF} sagittal), two valid codes of one family give oblique,
\* and a value without exactly two codes, or with a code that is missing or no
\* direction code, gives the empty result.
C20_PatientOrientationFallback ==
    (pstate = "built" /\ pin.fn = "po") =>
        LET parts  == Split(pin.po, "\\")
            twoOk  == /\ Len(parts) = 2
                      /\ Family(parts[1]) # "" /\ Family(parts[2]) # ""
            fams   == IF Len(parts) = 2 THEN {Family(parts[1]), Family(parts[2])} ELSE {}
        IN  IF ~twoOk THEN pout = ""
            ELSE /\ fams = {"RL", "AP"} => pout = "axial"
                 /\ fams = {"RL", "HF"} => pout = "coronal"
                 /\ fams = {"AP", "HF"} => pout = "sagittal"
                 /\ Cardinality(fams) = 1 => pout = "oblique"

\* file i of the series comes before file j when sorted by instance number
\* (files of equal number stay in read order)
Lower(files, i, j) ==
    \/ files[i].inst < files[j].inst
    \/ (files[i].inst = files[j].inst /\ i < j)

-----------------------------------------------------------------------------
(* Claims about the merge key and the frame of the label server *)

Lost(k) ==
    /\ submitted[k] # ""
    /\ ~(HasKey(load_manifest, k) /\ RowOf(tsv, k).annot = submitted[k])

\* process p holds a copy of the manifest that is no longer what the file holds
Stale(p) ==
    /\ inflight[p].pc \in {"loaded", "merged"}
    /\ <<inflight[p].exists, inflight[p].rows>> # <<tsvExists, tsv>>

\* C23 (lost update on the manifest): save_page and the extract script read,
\* update and write the whole file without synchronisation; a label reported
\* as saved goes missing from the persisted manifest exactly through the
\* write of a request or scan that had read the file before another writer
\* changed it, and never through a write made from the current content.
C23_LostUpdateNeedsStaleWrite ==
    [][\A k \in Keys :
         (~Lost(k) /\ Lost(k)') =>
             \E p \in Procs : Stale(p) /\ inflight'[p].pc = "done"]_vars

\* two requests for different series overlapped, no scan ran: both labels
\* were reported as saved and the manifest holds only the second one
C23_Witness ==
    /\ inflight[Scanner].pc = "idle"
    /\ \A c \in Requests : inflight[c].pc = "done"
    /\ DOMAIN inflight[1].input = {"S1"} /\ DOMAIN inflight[2].input = {"S2"}
    /\ submitted[<<"ST1", "S1">>] = "T1" /\ submitted[<<"ST1", "S2">>] = "T1"
    /\ RowOf(tsv, <<"ST1", "S1">>).annot = ""
    /\ RowOf(tsv, <<"ST1", "S2">>).annot = "T1"

-----------------------------------------------------------------------------
(* Claims about files already in quarantine and about unlabelled series *)

\* C24 (quarantine is re-processed): every run enumerates every file under
\* root, those under WAITING_DELETION included; the move of a file that is
\* already in quarantine puts it one WAITING_DELETION level deeper, at
\* WAITING_DELETION/<its current path relative to root>, and leaves nothing at
\* its path; and a completed non-dry run without I/O failure has returned
\* moved for every quarantined file whose series is still labelled DELETE.
C24_QuarantineReprocessed ==
    /\ [][(mainpc' = "running" /\ mainpc # "running") => Range(queue') = DOMAIN tree]_vars
    /\ [][\A p \in DOMAIN task :
            (p[1] > 0 /\ task[p].pc = "move" /\ task'[p].result = "moved") =>
                /\ p \notin DOMAIN tree'
                /\ <<p[1] + 1, p[2], p[3]>> \in DOMAIN tree'
                /\ tree'[<<p[1] + 1, p[2], p[3]>>] = tree[p]]_vars
    /\ []((mainpc = "summary" /\ ~dry_run /\ NoFaultInRun) =>
            \A q \in DOMAIN tree0 :
                (q[1] > 0 /\ LabelledDelete(tree0[q])) =>
                    /\ task[q].result = "moved"
                    /\ counts["moved"] >= Cardinality({r \in DOMAIN tree0 :
                                                        r[1] > 0 /\ LabelledDelete(tree0[r])}))

\* the second run found the three files where the first run had put them,
\* one level deep, counted them moved again and left them two levels deep
C24_Witness ==
    /\ run = 2 /\ mainpc = "summary"
    /\ Cardinality(DOMAIN tree0) = 3
    /\ \A q \in DOMAIN tree : q[1] = 2
    /\ \A q \in DOMAIN tree0 :
         q[1] = 1 /\ <<2, q[2], q[3]>> \in DOMAIN tree /\ tree[<<2, q[2], q[3]>>] = tree0[q]
    /\ counts["moved"] = 3

\* C25 (quarantine move never destroys content): the move of a file to its
\* quarantine destination leaves every other file of the tree, a file that
\* already exists at the destination included, where it is and as it is.
C25_MoveNeverOverwrites ==
    [][\A p \in DOMAIN task :
          (task[p].pc = "move" /\ task'[p].result = "moved") =>
              \A q \in DOMAIN tree \ {p} : q \in DOMAIN tree' /\ tree'[q] = tree[q]]_vars

UnknownPrefix(ds) ==
    "seq_UNKNOWN_acq_" \o classify_acq_dim(ds) \o "_plane_"
        \o (IF uid_map[ds.uid][2] = "" THEN "UNKNOWN" ELSE uid_map[ds.uid][2]) \o "___"

StartsWith(s, prefix) == Len(s) >= Len(prefix) /\ SubSeq(s, 1, Len(prefix)) = prefix

\* the calls of the run that read a slice of a series the manifest holds
\* without label
UnlabelledCalls ==
    {p \in DOMAIN task :
        /\ Parsable(task[p].ds)
        /\ task[p].ds.data.uid \in DOMAIN uid_map
        /\ uid_map[task[p].ds.data.uid][1] = ""}

\* C27 as stated (unlabelled series are still rewritten): when a non-dry run
\* without I/O failure has completed, exactly the readable files whose series
\* is no key of the manifest were skipped, and every file of a series with
\* an empty Annotation was reported edited and holds a ProtocolName that
\* starts with the UNKNOWN prefix.
C27_UnlabelledAlwaysEdited ==
    (mainpc = "summary" /\ ~dry_run /\ NoFaultInRun) =>
        /\ \A p \in DOMAIN task :
              Parsable(task[p].ds) =>
                 (task[p].result = "skipped" <=> task[p].ds.data.uid \notin DOMAIN uid_map)
        /\ \A p \in UnlabelledCalls :
              /\ task[p].result = "edited"
              /\ p \in DOMAIN tree
              /\ StartsWith(tree[p].data.proto, UnknownPrefix(task[p].ds.data))

\* C27 as amended: the same, except that a file whose ProtocolName already
\* equals the name computed for it is reported unchanged and is not written;
\* every other file of an unlabelled series is reported edited; either way
\* the file holds afterwards the computed name, which starts with the
\* UNKNOWN prefix.
C27_UnlabelledRewritten ==
    (mainpc = "summary" /\ ~dry_run /\ NoFaultInRun) =>
        /\ \A p \in DOMAIN task :
              Parsable(task[p].ds) =>
                 (task[p].result = "skipped" <=> task[p].ds.data.uid \notin DOMAIN uid_map)
        /\ \A p \in UnlabelledCalls :
              LET ds   == task[p].ds.data
                  name == build_protocol_name(ds.proto, "UNKNOWN", classify_acq_dim(ds),
                              IF uid_map[ds.uid][2] = "" THEN "UNKNOWN" ELSE uid_map[ds.uid][2])
              IN  /\ task[p].result = IF name = ds.proto THEN "unchanged" ELSE "edited"
                  /\ p \in DOMAIN tree
                  /\ tree[p].data.proto = name
                  /\ StartsWith(name, UnknownPrefix(ds))

\* S1 has no label: a/1.dcm was edited and carries the UNKNOWN prefix before
\* its old name, and b/1.dcm, which held the computed name already, was
\* reported unchanged
C27_Witness ==
    /\ mainpc = "summary" /\ ~dry_run /\ NoFaultInRun
    /\ uid_map["S1"][1] = ""
    /\ {<<0, "a", "1.dcm">>, <<0, "b", "1.dcm">>} \subseteq DOMAIN task \cap DOMAIN tree
    /\ task[<<0, "a", "1.dcm">>].result = "edited"
    /\ tree[<<0, "a", "1.dcm">>].data.proto = "seq_UNKNOWN_acq_2D_plane_axial___t1_mprage"
    /\ task[<<0, "b", "1.dcm">>].result = "unchanged"
    /\ tree[<<0, "b", "1.dcm">>].data.proto = SettledName

=============================================================================
